---- MODULE Spec2Model ----
(***************************************************************************)
(* State-machine model of src/sketch.js: an alien walking on a planet in   *)
(* spherical coordinates, followed by a camera on the center-alien ray.    *)
(*                                                                         *)
(* Numbers.  JavaScript numbers are IEEE doubles; here they are fixed      *)
(* point integers:                                                         *)
(*   - angles in hundredths of a radian (ANGLE_SPEED 0.02 -> 2, the pole   *)
(*     margin 0.01 -> 1, Math.PI -> 314; the sine is taken so that PI      *)
(*     hundredths are exactly Math.PI, which keeps sin and cos consistent);*)
(*   - lengths and coordinates in 1/PosScale of a scene unit;              *)
(*   - sines, cosines and unit vectors in 1/TrigScale.                     *)
(* Every division rounds to nearest, as a floating-point operation does.   *)
(***************************************************************************)
EXTENDS Integers, Sequences, FiniteSets, TLC

----------------------------------------------------------------------------
(* Game constants, sketch.js lines 1-8 and 34-42 *)

BLOCK_SIZE == 10

ALIEN_DISTANCE == 101 * BLOCK_SIZE

PLANET_RADIUS == 100 * BLOCK_SIZE

\* radians per frame for WASD rotation: 0.02, in hundredths of a radian
ANGLE_SPEED == 2

\* the literal 0.01 of the clamp in handleInput, in hundredths of a radian
POLE_MARGIN == 1

\* Math.PI, in hundredths of a radian
PI == 314

TWO_PI == PI * 2

HALF_PI == PI \div 2

INITIAL_CAMERA_DISTANCE == 200

ZOOM_SPEED == 10

MIN_ZOOM == 25

MAX_ZOOM == 500

CENTER_AXIS == <<0, 0, 0>>

----------------------------------------------------------------------------
(* Resolution of the fixed-point arithmetic *)

\* coordinates are held in 1/PosScale of a scene unit
PosScale == 16

\* sines, cosines and direction vectors are held in 1/TrigScale
TrigScale == 10000

\* the tolerance on a length, in 1/PosScale of a scene unit
LenTol == 3

\* the tolerance on a coordinate, in 1/PosScale of a scene unit
PosTol == 5

\* the tolerance on the distance of a point from a line, in 1/PosScale
ColTol == 3

----------------------------------------------------------------------------
(* Arithmetic *)

Abs(n) == IF n < 0 THEN -n ELSE n

\* a / b rounded to the nearest integer (b > 0); \div floors
RDiv(a, b) == (2 * a + b) \div (2 * b)

\* JavaScript's %: the remainder takes the sign of the dividend
JsMod(a, m) == IF a >= 0 THEN a % m ELSE -((-a) % m)

Min(a, b) == IF a < b THEN a ELSE b

Max(a, b) == IF a > b THEN a ELSE b

RECURSIVE SqrtIter(_, _)
\* Newton's iteration from above: the largest r with r * r <= n
SqrtIter(n, r) ==
    LET q == (r + n \div r) \div 2
    IN  IF q >= r THEN r ELSE SqrtIter(n, q)

\* Math.sqrt, rounded to the nearest integer; no 32-bit integer has a root
\* above 46340, where the iteration starts
Sqrt(n) ==
    IF n = 0 THEN 0
    ELSE LET r == SqrtIter(n, Min(n, 46340))
         IN  IF n - r * r > r THEN r + 1 ELSE r

\* an angle of t hundredths of a radian (0 <= t <= HALF_PI) in radians / 10000,
\* taking Math.PI (31416 / 10000) for PI hundredths
Rad4(t) == RDiv(t * 31416, PI)

RECURSIVE SinSeries(_, _, _)
\* the Taylor series of the sine from the term of order 2k-1 on, r in
\* radians / 10000: term(k+1) = -term(k) * r^2 / ((2k)(2k+1))
SinSeries(r, term, k) ==
    IF term = 0 THEN 0
    ELSE term + SinSeries(r, -RDiv(RDiv(term * r, 10000) * r, 10000 * (2 * k) * (2 * k + 1)), k + 1)

\* sin on the first quadrant, 0 <= t <= HALF_PI, scaled by TrigScale
SinQ(t) == SinSeries(Rad4(t), RDiv(Rad4(t) * TrigScale, 10000), 1)

SinTable == [t \in 0..HALF_PI |-> SinQ(t)]

\* Math.sin of an angle in hundredths of a radian, scaled by TrigScale
Sin(a) ==
    LET m == a % TWO_PI
    IN  IF m <= HALF_PI THEN SinTable[m]
        ELSE IF m <= PI THEN SinTable[PI - m]
        ELSE IF m <= PI + HALF_PI THEN -SinTable[m - PI]
        ELSE -SinTable[TWO_PI - m]

\* Math.cos of an angle in hundredths of a radian, scaled by TrigScale
Cos(a) == Sin(a + HALF_PI)

----------------------------------------------------------------------------
(* THREE.Vector3 *)

\* Vector3.length()
Length(v) == Sqrt(v[1] * v[1] + v[2] * v[2] + v[3] * v[3])

\* Vector3.normalize(): divideScalar(length() || 1); the result is in 1/TrigScale
Normalize(v) ==
    LET len == Length(v)
        d == IF len = 0 THEN 1 ELSE len
    IN  <<RDiv(v[1] * TrigScale, d), RDiv(v[2] * TrigScale, d), RDiv(v[3] * TrigScale, d)>>

\* Vector3.multiplyScalar(s) of a unit-scale vector, back in coordinate units
MultiplyScalar(dir, s) ==
    <<RDiv(dir[1] * s, TrigScale), RDiv(dir[2] * s, TrigScale), RDiv(dir[3] * s, TrigScale)>>

\* Vector3.cross
Cross(a, b) ==
    <<a[2] * b[3] - a[3] * b[2], a[3] * b[1] - a[1] * b[3], a[1] * b[2] - a[2] * b[1]>>

\* Vector3.dot
Dot(a, b) == a[1] * b[1] + a[2] * b[2] + a[3] * b[3]

\* the distance of point c from the line through the origin and a (a # 0):
\* |a x c| / |a|
DistanceFromRay(a, c) ==
    LET n == Cross(a, c)
        len == Length(a)
    IN  Length(<<RDiv(n[1], len), RDiv(n[2], len), RDiv(n[3], len)>>)

\* the largest difference between two coordinates of a and b
MaxDiff(a, b) == Max(Abs(a[1] - b[1]), Max(Abs(a[2] - b[2]), Abs(a[3] - b[3])))

\* Vector3.setLength(l): normalize().multiplyScalar(l)
SetLength(v, l) == MultiplyScalar(Normalize(v), l)

----------------------------------------------------------------------------
(* Program state *)

VARIABLES
    keys,            \* the keys map: the set of identifiers mapped to true
    alien,           \* alien.position and alien.spherical
    cameraDistance,  \* the zoom distance
    camera,          \* camera.position and the point camera.lookAt was given
    alienGroup,      \* the alien's mesh: its position
    scene,           \* the objects added to the THREE.Scene
    DEBUG_LINE,      \* window.DEBUG_LINE: a line of the scene, or Undefined
    rendered,        \* what the last renderer.render(scene, camera) drew
    reprojected,     \* whether the last handleInput called alien.position.set
    keyboard         \* the keys this user's keyboard sends

vars == <<keys, alien, cameraDistance, camera, alienGroup, scene, DEBUG_LINE,
          rendered, reprojected, keyboard>>

Undefined == <<"undefined", 0>>

\* the program's variables as one value, the argument of the functions below
State ==
    [keys |-> keys, alien |-> alien, cameraDistance |-> cameraDistance,
     camera |-> camera, alienGroup |-> alienGroup, scene |-> scene,
     DEBUG_LINE |-> DEBUG_LINE, rendered |-> rendered, reprojected |-> reprojected]

\* a length of the scene in coordinate units
Units(d) == d * PosScale

----------------------------------------------------------------------------
(* handleInput *)

\* dTheta: W subtracts ANGLE_SPEED, S adds it
DTheta(ks) ==
    (IF "w" \in ks THEN -ANGLE_SPEED ELSE 0) + (IF "s" \in ks THEN ANGLE_SPEED ELSE 0)

\* dPhi: A subtracts ANGLE_SPEED, D adds it
DPhi(ks) ==
    (IF "a" \in ks THEN -ANGLE_SPEED ELSE 0) + (IF "d" \in ks THEN ANGLE_SPEED ELSE 0)

ClampTheta_NoFloor(t) == Min(t, PI - POLE_MARGIN)

\* Math.min(Math.max(0.01, theta + dTheta), Math.PI - 0.01)
ClampTheta(t) == Min(Max(POLE_MARGIN, t), PI - POLE_MARGIN)

\* (phi + dPhi) % (Math.PI * 2)
WrapPhi(p) == JsMod(p, TWO_PI)

\* the Cartesian position of (r, theta, phi): theta from +Y, phi around Y
Project(theta, phi) ==
    LET r == Units(ALIEN_DISTANCE)
        sinT == Sin(theta)
        rSinT == RDiv(r * sinT, TrigScale)
    IN  <<RDiv(rSinT * Sin(phi), TrigScale),
          RDiv(r * Cos(theta), TrigScale),
          RDiv(rSinT * Cos(phi), TrigScale)>>

ZoomIn_NoFloor(d) == d - ZOOM_SPEED

\* Math.max(MIN_ZOOM, cameraDistance - ZOOM_SPEED)
ZoomIn(d) == Max(MIN_ZOOM, d - ZOOM_SPEED)

\* Math.min(MAX_ZOOM, cameraDistance + ZOOM_SPEED)
ZoomOut(d) == Min(MAX_ZOOM, d + ZOOM_SPEED)

\* the position is taken from the angles of the frame before
Moved_StalePosition(s) ==
    LET dTheta == DTheta(s.keys)
        dPhi == DPhi(s.keys)
    IN  IF dTheta # 0 \/ dPhi # 0
        THEN [s EXCEPT !.alien.spherical =
                            [theta |-> ClampTheta(s.alien.spherical.theta + dTheta),
                             phi |-> WrapPhi(s.alien.spherical.phi + dPhi)],
                       !.alien.position =
                            Project(s.alien.spherical.theta, s.alien.spherical.phi),
                       !.reprojected = TRUE]
        ELSE [s EXCEPT !.reprojected = FALSE]

\* the angles and the position after the WASD block
Moved(s) ==
    LET dTheta == DTheta(s.keys)
        dPhi == DPhi(s.keys)
    IN  IF dTheta # 0 \/ dPhi # 0
        THEN LET theta == ClampTheta(s.alien.spherical.theta + dTheta)
                 phi == WrapPhi(s.alien.spherical.phi + dPhi)
             IN  [s EXCEPT !.alien.spherical = [theta |-> theta, phi |-> phi],
                           !.alien.position = Project(theta, phi),
                           !.reprojected = TRUE]
        ELSE [s EXCEPT !.reprojected = FALSE]

\* the zoom distance after the O block and then the P block
Zoomed(s) ==
    LET afterO == IF "o" \in s.keys THEN ZoomIn(s.cameraDistance) ELSE s.cameraDistance
        afterP == IF "p" \in s.keys THEN ZoomOut(afterO) ELSE afterO
    IN  [s EXCEPT !.cameraDistance = afterP]

handleInput(s) == Zoomed(Moved(s))

----------------------------------------------------------------------------
(* updateAlien, updateAlienPosition, updateCamera *)

\* the alien is put on the planet's radius instead of its own
updateAlien_PlanetRadius(s) ==
    IF Length(s.alien.position) = 0 THEN s
    ELSE [s EXCEPT !.alien.position = SetLength(s.alien.position, Units(PLANET_RADIUS))]

updateAlien(s) ==
    IF Length(s.alien.position) = 0 THEN s
    ELSE [s EXCEPT !.alien.position = SetLength(s.alien.position, Units(ALIEN_DISTANCE))]

\* the mesh takes the alien's position (its rotation is not modelled)
updateAlienPosition(s) == [s EXCEPT !.alienGroup.position = s.alien.position]

Lines(sc) == {o \in sc : o[1] = "Line"}

\* new THREE.Line(...): an object that is not in the scene
NewLine(sc) ==
    <<"Line", CHOOSE n \in 0..Cardinality(sc) :
                  /\ <<"Line", n>> \notin sc
                  /\ \A m \in 0..(n - 1) : <<"Line", m>> \in sc>>

\* the old line stays in the scene
DrawDebugLine_NoRemove(s) ==
    LET line == NewLine(s.scene)
    IN  [s EXCEPT !.DEBUG_LINE = line, !.scene = s.scene \cup {line}]

\* the POV line: the old one leaves the scene, a new one enters it
DrawDebugLine(s) ==
    LET cleared == IF s.DEBUG_LINE # Undefined THEN s.scene \ {s.DEBUG_LINE} ELSE s.scene
        line == NewLine(cleared)
    IN  [s EXCEPT !.DEBUG_LINE = line, !.scene = cleared \cup {line}]

\* the camera is placed at the zoom distance from the center
updateCamera_FromCenter(s) ==
    LET alienPos == s.alien.position
        camPos == MultiplyScalar(Normalize(alienPos), Units(s.cameraDistance))
    IN  IF Length(alienPos) = 0 THEN s
        ELSE DrawDebugLine([s EXCEPT !.camera = [position |-> camPos, target |-> alienPos]])

updateCamera(s) ==
    LET alienPos == s.alien.position
        dir == Normalize(alienPos)
        camDistFromCenter == Units(ALIEN_DISTANCE + s.cameraDistance)
        camPos == MultiplyScalar(dir, camDistFromCenter)
    IN  IF Length(alienPos) = 0 THEN s
        ELSE DrawDebugLine([s EXCEPT !.camera = [position |-> camPos, target |-> alienPos]])

\* renderer.render(scene, camera)
render(s) ==
    [s EXCEPT !.rendered = [camera |-> s.camera, alienGroup |-> s.alienGroup,
                            lines |-> Cardinality(Lines(s.scene))]]

\* the camera is updated before the input is handled
animate_CameraFirst(s) ==
    render(updateAlienPosition(updateAlien(handleInput(updateCamera(s)))))

\* one frame
animate(s) == render(updateCamera(updateAlienPosition(updateAlien(handleInput(s)))))

----------------------------------------------------------------------------
(* Key events *)

LowerCase ==
    [k \in {"w", "a", "s", "d", "o", "p", "W", "A", "S", "D", "O", "P"} |->
        CASE k = "W" -> "w" [] k = "A" -> "a" [] k = "S" -> "s"
          [] k = "D" -> "d" [] k = "O" -> "o" [] k = "P" -> "p" [] OTHER -> k]

\* a keyboard event: its code and its key
Events ==
    {[code |-> "Space", key |-> " "]}
      \cup {[code |-> "Key", key |-> k] : k \in DOMAIN LowerCase}

\* the identifier keyPressed and keyReleased file an event under
KeyOf(event) == IF event.code = "Space" THEN " " ELSE LowerCase[event.key]

\* the keyboards considered: a behaviour has one of them and receives events
\* for its keys only.  handleInput reads the six keys independently; the
\* sets cover the polar angle both ways, the azimuth both ways, the zoom both
\* ways, and each pair of them moving together.
Keyboards ==
    {{"w", "s", " "}, {"a", "d"}, {"o", "p"}, {"s", "d"}, {"s", "p"}, {"w", "a", "o"}}

----------------------------------------------------------------------------
(* The state machine *)

\* the module-level declarations and init() up to its call of animate()
Loaded ==
    [keys |-> {},
     alien |-> [position |-> <<0, Units(ALIEN_DISTANCE), 0>>,
                spherical |-> [theta |-> 0, phi |-> 0]],
     cameraDistance |-> INITIAL_CAMERA_DISTANCE,
     camera |-> [position |-> <<0, 0, 0>>, target |-> <<0, 0, -Units(1)>>],
     alienGroup |-> [position |-> <<0, Units(ALIEN_DISTANCE), 0>>],
     scene |-> {<<"AmbientLight", 0>>, <<"DirectionalLight", 0>>, <<"Points", 0>>,
                <<"Mesh", 0>>, <<"Mesh", 1>>},
     DEBUG_LINE |-> Undefined,
     rendered |-> [camera |-> [position |-> <<0, 0, 0>>, target |-> <<0, 0, -Units(1)>>],
                   alienGroup |-> [position |-> <<0, Units(ALIEN_DISTANCE), 0>>],
                   lines |-> 0],
     reprojected |-> FALSE]

Becomes(s) ==
    /\ keys' = s.keys
    /\ alien' = s.alien
    /\ cameraDistance' = s.cameraDistance
    /\ camera' = s.camera
    /\ alienGroup' = s.alienGroup
    /\ scene' = s.scene
    /\ DEBUG_LINE' = s.DEBUG_LINE
    /\ rendered' = s.rendered
    /\ reprojected' = s.reprojected

\* init(): the last thing it does is the first frame
Init ==
    LET s == animate(Loaded)
    IN  /\ keys = s.keys
        /\ alien = s.alien
        /\ cameraDistance = s.cameraDistance
        /\ camera = s.camera
        /\ alienGroup = s.alienGroup
        /\ scene = s.scene
        /\ DEBUG_LINE = s.DEBUG_LINE
        /\ rendered = s.rendered
        /\ reprojected = s.reprojected
        /\ keyboard \in Keyboards

keyPressed(event) ==
    /\ KeyOf(event) \in keyboard
    /\ keys' = keys \cup {KeyOf(event)}
    /\ UNCHANGED <<alien, cameraDistance, camera, alienGroup, scene, DEBUG_LINE,
                   rendered, reprojected, keyboard>>

keyReleased(event) ==
    /\ KeyOf(event) \in keyboard
    /\ keys' = keys \ {KeyOf(event)}
    /\ UNCHANGED <<alien, cameraDistance, camera, alienGroup, scene, DEBUG_LINE,
                   rendered, reprojected, keyboard>>

\* the requestAnimationFrame callback
Animate ==
    /\ \E s \in {animate(State)} : Becomes(s)
    /\ UNCHANGED keyboard

Next ==
    \/ \E event \in Events : keyPressed(event)
    \/ \E event \in Events : keyReleased(event)
    \/ Animate

Spec == Init /\ [][Next]_vars

----------------------------------------------------------------------------
(* Properties *)

theta == alien.spherical.theta

phi == alien.spherical.phi

\* the frame moved the alien: some angular delta is not zero
Steering(ks) == DTheta(ks) # 0 \/ DPhi(ks) # 0

\* a step that leaves the keys map alone is a frame: the key handlers change
\* the keys map and nothing else
FrameStep == keys' = keys

\* C1: in every reachable state, the initial one included, the polar angle
\* lies in [0.01, PI - 0.01], so it is never exactly 0 or PI.
C1_PolarAngleClamped == theta \in POLE_MARGIN..(PI - POLE_MARGIN)

\* C2: after any sequence of frames the azimuth is in [0, 2 PI): never
\* negative, never 2 PI or more.
C2_AzimuthInRange == phi \in 0..(TWO_PI - 1)

\* C3: the zoom distance stays in [MIN_ZOOM, MAX_ZOOM] in every reachable
\* state; a frame that zooms in at MIN_ZOOM leaves it at MIN_ZOOM and a frame
\* that zooms out at MAX_ZOOM leaves it at MAX_ZOOM.
C3_ZoomInRange ==
    /\ [](cameraDistance \in MIN_ZOOM..MAX_ZOOM)
    /\ [][FrameStep =>
            /\ ("o" \in keys /\ "p" \notin keys /\ cameraDistance = MIN_ZOOM
                    => cameraDistance' = MIN_ZOOM)
            /\ ("p" \in keys /\ "o" \notin keys /\ cameraDistance = MAX_ZOOM
                    => cameraDistance' = MAX_ZOOM)]_vars

\* a zoom-in frame has run at MIN_ZOOM
C3_Witness ==
    /\ cameraDistance = MIN_ZOOM
    /\ rendered.camera.position[2] = Units(ALIEN_DISTANCE + MIN_ZOOM)
    /\ keys = {"o"}

\* C4: in every reachable state the alien's position is at distance
\* ALIEN_DISTANCE from the center (within LenTol), so never at the center
\* and never off the shell.
C4_OnShell ==
    /\ Abs(Length(alien.position) - Units(ALIEN_DISTANCE)) <= LenTol
    /\ Abs(Length(alienGroup.position) - Units(ALIEN_DISTANCE)) <= LenTol

\* the alien was moved off both the pole and the zero meridian by a frame
C4_Witness ==
    /\ reprojected
    /\ theta = 101
    /\ phi = 50
    /\ alien.position # <<0, Units(ALIEN_DISTANCE), 0>>

\* C5: when the alien is not at the center, the camera is on the ray from the
\* center through the alien (within ColTol), at ALIEN_DISTANCE + cameraDistance
\* from the center (within LenTol), beyond the alien, and looks at the alien.
C5_CameraOnRay ==
    Length(alien.position) # 0 =>
        /\ DistanceFromRay(alien.position, camera.position) <= ColTol
        /\ Dot(alien.position, camera.position) > 0
        /\ Abs(Length(camera.position) - Units(ALIEN_DISTANCE + cameraDistance)) <= LenTol
        /\ Length(camera.position) > Length(alien.position)
        /\ camera.target = alien.position

\* the camera follows an alien off the pole at a zoom that is not the first
C5_Witness ==
    /\ theta = 100
    /\ cameraDistance = 300
    /\ reprojected
    /\ camera.target = alien.position
    /\ camera.position[1] = 0 /\ camera.position[3] > 0

C7_EachSignalOwnAngle ==
    [][FrameStep =>
        /\ (keys \cap {"w", "s"} = {} /\ keys \cap {"a", "d"} # {} =>
                /\ theta' = theta
                /\ (phi' - phi - DPhi(keys)) % TWO_PI = 0)
        /\ (keys \cap {"a", "d"} = {} /\ keys \cap {"w", "s"} # {} =>
                /\ phi' = phi
                /\ theta' = IF DTheta(keys) = 0 THEN theta
                            ELSE ClampTheta(theta + DTheta(keys)))]_vars

\* C8: the frame that was drawn shows the camera pose derived from the
\* alien's position and the zoom distance the same frame's input produced,
\* and the mesh at that position.
C8_DrawnFrameIsCurrent ==
    /\ rendered.camera = camera
    /\ rendered.alienGroup = alienGroup
    /\ alienGroup.position = alien.position
    /\ camera.target = alien.position
    /\ camera.position =
            MultiplyScalar(Normalize(alien.position), Units(ALIEN_DISTANCE + cameraDistance))

\* a frame moved the alien and zoomed, and was drawn
C8_Witness ==
    /\ reprojected
    /\ theta = 100
    /\ cameraDistance = 300
    /\ keys = {"s", "p"}
    /\ rendered.camera.target = alien.position

C10_OneDebugLine ==
    /\ Cardinality(Lines(scene)) <= 1
    /\ Lines(scene) = {DEBUG_LINE}
    /\ Cardinality(scene) = Cardinality(Loaded.scene) + 1
    /\ rendered.lines = 1

\* a later frame has replaced the first frame's line
C10_Witness ==
    /\ reprojected
    /\ theta = 101
    /\ DEBUG_LINE \in scene
    /\ Cardinality(Lines(scene)) = 1

====
